---- MODULE Spec2Model ----
(***************************************************************************)
(* The service worker of invomodo (src/sw.js): cache partitions, the four  *)
(* fetch strategies, the install / activate lifecycle steps and the        *)
(* administration messages.  Every await of the source is a step of its    *)
(* task, so tasks interleave exactly where the event loop lets them.       *)
(***************************************************************************)
EXTENDS Integers, Sequences, FiniteSets, TLC

(* ------------------------------ bounds -------------------------------- *)

\* Number of handler invocations that may be in flight at once.
MaxTasks == 2

(* ------------------------------ strings ------------------------------- *)

STATIC_CACHE_NAME == "invomodo-static-v1.0.0"
RUNTIME_CACHE_NAME == "invomodo-runtime-v1.0.0"
CACHE_NAME == "invomodo-v1.0.0"

\* Partitions left behind by an earlier worker version and by another
\* application of the same origin.
OLD_STATIC_CACHE_NAME == "invomodo-static-v0.9.0"
FOREIGN_CACHE_NAME == "other-app-v1"

NamePrefix == "invomodo-"
ExtensionScheme == "chrome-extension://"
Origin == "https://a"

STATIC_ASSETS ==
  << "/", "/index.html", "/manifest.json", "/firebase_auth.js",
     "/pkg/secure_pwa.js", "/pkg/secure_pwa_bg.wasm" >>

NETWORK_FIRST_ROUTES == << "/api/", "/auth/" >>

CACHE_FIRST_ROUTES == << "/static/", "/icons/", "/assets/" >>

OFFLINE_PATH == "/offline.html"

URL_ROOT == "https://a/"
URL_INDEX == "https://a/index.html"
URL_MANIFEST == "https://a/manifest.json"
URL_AUTH_JS == "https://a/firebase_auth.js"
URL_PWA_JS == "https://a/pkg/secure_pwa.js"
URL_PWA_WASM == "https://a/pkg/secure_pwa_bg.wasm"
URL_API == "https://a/api/user"
URL_STATIC == "https://a/static/app.css"
URL_PAGE == "https://a/dashboard"
URL_OFFLINE == "https://a/offline.html"
URL_EXTENSION == "chrome-extension://x/api/y"
\* URLs more than one routing pattern applies to.
URL_API_ASSETS == "https://a/api/assets/"
URL_STATIC_INDEX == "https://a/static/index.html"

KnownURLs ==
  { URL_ROOT, URL_INDEX, URL_MANIFEST, URL_AUTH_JS, URL_PWA_JS, URL_PWA_WASM,
    URL_API, URL_STATIC, URL_PAGE, URL_OFFLINE, URL_EXTENSION,
    URL_API_ASSETS, URL_STATIC_INDEX }

\* The characters of each string the worker compares.
Chars(s) ==
  CASE s = "invomodo-static-v1.0.0" -> <<"i","n","v","o","m","o","d","o","-","s","t","a","t","i","c","-","v","1",".","0",".","0">>
    [] s = "invomodo-runtime-v1.0.0" -> <<"i","n","v","o","m","o","d","o","-","r","u","n","t","i","m","e","-","v","1",".","0",".","0">>
    [] s = "invomodo-v1.0.0" -> <<"i","n","v","o","m","o","d","o","-","v","1",".","0",".","0">>
    [] s = "invomodo-static-v0.9.0" -> <<"i","n","v","o","m","o","d","o","-","s","t","a","t","i","c","-","v","0",".","9",".","0">>
    [] s = "other-app-v1" -> <<"o","t","h","e","r","-","a","p","p","-","v","1">>
    [] s = "invomodo-" -> <<"i","n","v","o","m","o","d","o","-">>
    [] s = "chrome-extension://" -> <<"c","h","r","o","m","e","-","e","x","t","e","n","s","i","o","n",":","/","/">>
    [] s = "https://a" -> <<"h","t","t","p","s",":","/","/","a">>
    [] s = "/" -> <<"/">>
    [] s = "/index.html" -> <<"/","i","n","d","e","x",".","h","t","m","l">>
    [] s = "/manifest.json" -> <<"/","m","a","n","i","f","e","s","t",".","j","s","o","n">>
    [] s = "/firebase_auth.js" -> <<"/","f","i","r","e","b","a","s","e","_","a","u","t","h",".","j","s">>
    [] s = "/pkg/secure_pwa.js" -> <<"/","p","k","g","/","s","e","c","u","r","e","_","p","w","a",".","j","s">>
    [] s = "/pkg/secure_pwa_bg.wasm" -> <<"/","p","k","g","/","s","e","c","u","r","e","_","p","w","a","_","b","g",".","w","a","s","m">>
    [] s = "/api/" -> <<"/","a","p","i","/">>
    [] s = "/auth/" -> <<"/","a","u","t","h","/">>
    [] s = "/static/" -> <<"/","s","t","a","t","i","c","/">>
    [] s = "/icons/" -> <<"/","i","c","o","n","s","/">>
    [] s = "/assets/" -> <<"/","a","s","s","e","t","s","/">>
    [] s = "/offline.html" -> <<"/","o","f","f","l","i","n","e",".","h","t","m","l">>
    [] s = "https://a/" -> <<"h","t","t","p","s",":","/","/","a","/">>
    [] s = "https://a/index.html" -> <<"h","t","t","p","s",":","/","/","a","/","i","n","d","e","x",".","h","t","m","l">>
    [] s = "https://a/manifest.json" -> <<"h","t","t","p","s",":","/","/","a","/","m","a","n","i","f","e","s","t",".","j","s","o","n">>
    [] s = "https://a/firebase_auth.js" -> <<"h","t","t","p","s",":","/","/","a","/","f","i","r","e","b","a","s","e","_","a","u","t","h",".","j","s">>
    [] s = "https://a/pkg/secure_pwa.js" -> <<"h","t","t","p","s",":","/","/","a","/","p","k","g","/","s","e","c","u","r","e","_","p","w","a",".","j","s">>
    [] s = "https://a/pkg/secure_pwa_bg.wasm" -> <<"h","t","t","p","s",":","/","/","a","/","p","k","g","/","s","e","c","u","r","e","_","p","w","a","_","b","g",".","w","a","s","m">>
    [] s = "https://a/api/user" -> <<"h","t","t","p","s",":","/","/","a","/","a","p","i","/","u","s","e","r">>
    [] s = "https://a/static/app.css" -> <<"h","t","t","p","s",":","/","/","a","/","s","t","a","t","i","c","/","a","p","p",".","c","s","s">>
    [] s = "https://a/dashboard" -> <<"h","t","t","p","s",":","/","/","a","/","d","a","s","h","b","o","a","r","d">>
    [] s = "https://a/offline.html" -> <<"h","t","t","p","s",":","/","/","a","/","o","f","f","l","i","n","e",".","h","t","m","l">>
    [] s = "chrome-extension://x/api/y" -> <<"c","h","r","o","m","e","-","e","x","t","e","n","s","i","o","n",":","/","/","x","/","a","p","i","/","y">>
    [] s = "https://a/api/assets/" -> <<"h","t","t","p","s",":","/","/","a","/","a","p","i","/","a","s","s","e","t","s","/">>
    [] s = "https://a/static/index.html" -> <<"h","t","t","p","s",":","/","/","a","/","s","t","a","t","i","c","/","i","n","d","e","x",".","h","t","m","l">>

StartsWith(s, p) == Len(p) <= Len(s) /\ SubSeq(s, 1, Len(p)) = p
EndsWith(s, p) == Len(p) <= Len(s) /\ SubSeq(s, Len(s) - Len(p) + 1, Len(s)) = p
Includes(s, p) == \E i \in 1..(Len(s) - Len(p) + 1) : SubSeq(s, i, i + Len(p) - 1) = p

\* A path resolved against the worker's origin, as the platform does for
\* caches.match('/offline.html') and cache.addAll(paths).
Resolve(path) == CHOOSE u \in KnownURLs : Chars(u) = Chars(Origin) \o Chars(path)

\* The key caches.match('/offline.html') looks up.
OfflineURL == Resolve(OFFLINE_PATH)

(* ------------------------------ values -------------------------------- *)

Undefined == [t |-> "undefined", status |-> 0, body |-> "", size |-> 0]
Null == [t |-> "null", status |-> 0, body |-> "", size |-> 0]
\* A promise object, as a JavaScript value: always truthy.
PromiseValue == [t |-> "promise", status |-> 0, body |-> "", size |-> 0]
\* A promise that rejected carries no value.
Rejected == [t |-> "rejected", status |-> 0, body |-> "", size |-> 0]
\* No value produced yet.
Pending == [t |-> "pending", status |-> 0, body |-> "", size |-> 0]

Response(status, body, size) == [t |-> "response", status |-> status, body |-> body, size |-> size]

\* Response.ok: the status is in the range 200-299.
Ok(r) == r.t = "response" /\ r.status >= 200 /\ r.status <= 299

\* What the network may answer when a fetch resolves.
NetworkResponses ==
  { Response(200, "a", 100), Response(200, "b", 250), Response(500, "error", 5) }

OfflineHTMLResponse == Response(200, "offline-html", 2600)
Unavailable503 == Response(503, "Offline - Resource not available", 32)
NotFound404 == Response(404, "Resource not available", 22)

Truthy(v) == v.t \notin {"undefined", "null"}
\* JavaScript's a || b on values.
JsOr(a, b) == IF Truthy(a) THEN a ELSE b

\* What getCacheStatus() resolves with: the status object (kept in the
\* task's status field) or { error: message }.
StatusValue == [t |-> "status", status |-> 0, body |-> "", size |-> 0]
ErrorValue == [t |-> "error", status |-> 0, body |-> "", size |-> 0]

(* -------------------------- cache storage ----------------------------- *)

\* A partition is [name, entries]; entries is the ordered list of
\* [url, resp] pairs of a Cache object.
Keys(cs) == [i \in 1..Len(cs) |-> cs[i].name]
HasCache(cs, name) == \E i \in 1..Len(cs) : cs[i].name = name
CacheIndex(cs, name) == CHOOSE i \in 1..Len(cs) : cs[i].name = name
EntriesOf(cs, name) == IF HasCache(cs, name) THEN cs[CacheIndex(cs, name)].entries ELSE <<>>

\* caches.open(name): the partition is created when it does not exist.
CachesOpen(cs, name) ==
  IF HasCache(cs, name) THEN cs ELSE Append(cs, [name |-> name, entries |-> <<>>])

\* caches.delete(name)
CachesDelete(cs, name) == SelectSeq(cs, LAMBDA c : c.name # name)

\* cache.match(request) on one Cache object.
CacheMatch(entries, url) ==
  IF \E i \in 1..Len(entries) : entries[i].url = url
  THEN entries[CHOOSE i \in 1..Len(entries) :
                 /\ entries[i].url = url
                 /\ \A j \in 1..(i - 1) : entries[j].url # url].resp
  ELSE Undefined

\* A lookup that consults the runtime partition alone.
CachesMatchRuntimeOnly(cs, url) ==
  IF \E i \in 1..Len(cs) : cs[i].name = RUNTIME_CACHE_NAME
  THEN CacheMatch(cs[CHOOSE i \in 1..Len(cs) : cs[i].name = RUNTIME_CACHE_NAME].entries, url)
  ELSE Undefined

\* caches.match(request): the partitions are searched in creation order.
CachesMatch(cs, url) ==
  IF \E i \in 1..Len(cs) : Truthy(CacheMatch(cs[i].entries, url))
  THEN CacheMatch(cs[CHOOSE i \in 1..Len(cs) :
                        /\ Truthy(CacheMatch(cs[i].entries, url))
                        /\ \A j \in 1..(i - 1) : ~Truthy(CacheMatch(cs[j].entries, url))].entries,
                  url)
  ELSE Undefined

\* A put that keeps the entry it should replace.
CachePutAppend(entries, url, resp) == Append(entries, [url |-> url, resp |-> resp])

\* A put that leaves an entry of the same request in place.
CachePutKeepFirst(entries, url, resp) ==
  IF \E k \in 1..Len(entries) : entries[k].url = url
  THEN entries
  ELSE Append(entries, [url |-> url, resp |-> resp])

\* cache.put(request, response) on one Cache object: the entry of the same
\* request is replaced, a new one is appended.
CachePut(entries, url, resp) ==
  Append(SelectSeq(entries, LAMBDA e : e.url # url), [url |-> url, resp |-> resp])

\* A put that is lost.
PutThroughNothing(cs, handle, url, resp) == cs

\* A put through a Cache handle.  A handle whose partition has been deleted
\* still accepts the write, but no named partition sees it.
PutThrough(cs, handle, url, resp) ==
  [i \in 1..Len(cs) |->
     IF cs[i].name = handle
     THEN [cs[i] EXCEPT !.entries = CachePut(cs[i].entries, url, resp)]
     ELSE cs[i]]

NoHandle == ""
NoUrl == ""

(* ------------------------------ routing ------------------------------- *)

isNetworkFirstRoute(url) ==
  \E i \in 1..Len(NETWORK_FIRST_ROUTES) : Includes(Chars(url), Chars(NETWORK_FIRST_ROUTES[i]))
isCacheFirstRoute(url) ==
  \E i \in 1..Len(CACHE_FIRST_ROUTES) : Includes(Chars(url), Chars(CACHE_FIRST_ROUTES[i]))
isStaticAsset(url) ==
  \E i \in 1..Len(STATIC_ASSETS) : EndsWith(Chars(url), Chars(STATIC_ASSETS[i]))

\* A listener that tries the cache-first patterns before the network-first
\* ones.
RouteCacheFirstFirst(method, url) ==
  IF method # "GET" THEN "pass"
  ELSE IF StartsWith(Chars(url), Chars(ExtensionScheme)) THEN "pass"
  ELSE IF isCacheFirstRoute(url) THEN "cf"
  ELSE IF isNetworkFirstRoute(url) THEN "nf"
  ELSE IF isStaticAsset(url) THEN "co"
  ELSE "swr"

\* The fetch listener's choice: "pass" when respondWith is not called.
Route(method, url) ==
  IF method # "GET" THEN "pass"
  ELSE IF StartsWith(Chars(url), Chars(ExtensionScheme)) THEN "pass"
  ELSE IF isNetworkFirstRoute(url) THEN "nf"
  ELSE IF isCacheFirstRoute(url) THEN "cf"
  ELSE IF isStaticAsset(url) THEN "co"
  ELSE "swr"

(* ------------------------------- state -------------------------------- *)

VARIABLES
  caches,      \* CacheStorage: the partitions, in creation order
  tasks,       \* the handler invocations in flight or finished, by slot
  worker       \* skipWaiting / clients.claim requests made so far

vars == <<caches, tasks, worker>>

Slots == 1..MaxTasks

\* A slot nothing runs in.
IdleTask ==
  [ kind |-> "idle", pc |-> "done",
    url |-> NoUrl, mode |-> "", method |-> "",
    fetched |-> Pending,      \* the network response, once the fetch resolved
    cached |-> Pending,       \* what the cache lookup gave
    handle |-> NoHandle,      \* the Cache object obtained from caches.open
    result |-> Pending,       \* what the handler's promise settled with
    delivered |-> FALSE,
    fetches |-> 0,            \* network fetches issued by this task
    puts |-> 0,               \* cache writes issued by this task
    names |-> <<>>,           \* the snapshot taken by caches.keys()
    todo |-> {},              \* deletions issued and not yet finished
    idx |-> 0, entry |-> 0, requests |-> <<>>, cacheSize |-> 0,
    status |-> [cacheNames |-> <<>>, totalSize |-> 0, cacheDetails |-> <<>>],
    failed |-> FALSE,         \* a platform call of this task rejected
    calls |-> {},             \* skipWaiting / clients.claim requested by this task
    afterClear |-> FALSE,     \* dispatched right behind a CLEAR_CACHE message
    orphan |-> <<>>,          \* the entries of the handle's Cache once orphaned
    batch |-> <<>>,           \* the responses cache.addAll fetched, by asset
    again |-> FALSE,          \* cache.addAll found exactly this batch stored already
    pre |-> <<>>,             \* the partitions when the task was dispatched
    sub |-> <<>>,             \* cacheUrls: where the callback of each URL stands
    replies |-> 0,            \* messages posted on the port of the event
    overlap |-> FALSE,        \* clear: an install or cacheUrls step ran meanwhile
    disturbed |-> FALSE ]     \* another task changed the partitions meanwhile

\* The lowest free slot takes the next handler invocation.
Free(i) ==
  /\ tasks[i].pc = "done"
  /\ \A j \in Slots : j < i => tasks[j].pc # "done"

\* Partitions that may exist when the worker starts: none, or the runtime
\* partition of an earlier run next to the leftovers of an earlier version
\* and the partition of another application of the origin.
InitialCaches ==
  { <<>>,
    << [name |-> OLD_STATIC_CACHE_NAME,
        entries |-> << [url |-> URL_INDEX, resp |-> Response(200, "a", 100)],
                       [url |-> URL_STATIC, resp |-> Response(200, "a", 100)] >>],
       [name |-> RUNTIME_CACHE_NAME,
        entries |-> << [url |-> URL_PAGE, resp |-> Response(200, "b", 250)] >>],
       [name |-> FOREIGN_CACHE_NAME,
        entries |-> << [url |-> URL_API, resp |-> Response(200, "b", 250)] >>] >> }

Init ==
  /\ caches \in InitialCaches
  /\ tasks = [i \in Slots |-> IdleTask]
  /\ worker = [skipWaiting |-> FALSE, claimed |-> FALSE]

\* The other slots after a step of task i that leaves the partitions as cs.
\* A finished task is on record for the state its last step produced and is
\* dropped by the next step; a running task is marked disturbed when the
\* partitions changed while it was suspended; a handle to a partition that
\* was deleted becomes an orphan.
Others(ts, i, cs) ==
  [j \in Slots |->
     IF j = i THEN ts[j]
     ELSE IF ts[j].pc = "done" THEN IdleTask
     ELSE [ts[j] EXCEPT
             !.disturbed = IF cs # caches THEN TRUE ELSE @,
             !.overlap = IF ts[j].kind = "clear" /\ ts[i].kind \in {"install", "cacheUrls"}
                         THEN TRUE ELSE @,
             !.orphan = IF ts[j].handle # NoHandle /\ ~HasCache(cs, ts[j].handle)
                        THEN EntriesOf(caches, ts[j].handle) ELSE @,
             !.handle = IF @ # NoHandle /\ ~HasCache(cs, @) THEN NoHandle ELSE @]]

\* The entries behind the task's Cache handle.
HandleEntries(t) == IF t.handle = NoHandle THEN t.orphan ELSE EntriesOf(caches, t.handle)

Finish(t, v) == [t EXCEPT !.pc = "done", !.result = v, !.delivered = TRUE]

(* --------------------------- fetch listener --------------------------- *)

RequestURLs ==
  { URL_API, URL_STATIC, URL_INDEX, URL_PAGE, URL_OFFLINE, URL_EXTENSION,
    URL_API_ASSETS, URL_STATIC_INDEX }
Methods == {"GET", "POST"}
Modes == {"navigate", "cors"}

Requests == [method : Methods, url : RequestURLs, mode : Modes]

\* The listener's choice for every request that can arrive.
RouteTable == [method \in Methods, url \in RequestURLs |-> Route(method, url)]

\* The fetch listener, for a request out of reqs.  A request it leaves to
\* the platform (respondWith is not called) is on record as a finished task
\* of kind "pass".  A request handed to a strategy starts that async
\* function, which runs to its first await at once: network-first has
\* issued its fetch, the others their cache lookup.
FetchFrom(i, reqs) ==
  \E q \in reqs :
    LET r == RouteTable[q.method, q.url] IN
    /\ Free(i)
    /\ tasks' = Others([tasks EXCEPT ![i] =
         [IdleTask EXCEPT !.kind = r, !.url = q.url, !.mode = q.mode, !.method = q.method,
                          !.pc = IF r = "pass" THEN "done" ELSE IF r = "nf" THEN "fetch" ELSE "match",
                          !.fetches = IF r = "nf" THEN 1 ELSE 0]], i, caches)
    /\ UNCHANGED <<caches, worker>>

FetchEvent(i) == FetchFrom(i, Requests)

(* ----------------------- networkFirstStrategy ------------------------- *)

\* const cache = await caches.open(RUNTIME_CACHE_NAME);
\* cache.put(request, networkResponse.clone());  -- not awaited
\* return networkResponse;
OpenThenPut(i) ==
  LET cs == CachesOpen(caches, RUNTIME_CACHE_NAME) IN
  /\ caches' = cs
  /\ tasks' = Others([tasks EXCEPT ![i] =
       [tasks[i] EXCEPT !.handle = RUNTIME_CACHE_NAME, !.puts = @ + 1, !.pc = "put",
                        !.result = tasks[i].fetched, !.delivered = TRUE]], i, cs)
  /\ UNCHANGED worker

\* A network-first handler that turns to the cache on a non-ok answer too.
NfFetchResolveFallsBack(i) ==
  \E r \in NetworkResponses :
    /\ tasks[i].kind = "nf" /\ tasks[i].pc = "fetch"
    /\ tasks' = Others([tasks EXCEPT ![i] =
         IF Ok(r) THEN [tasks[i] EXCEPT !.fetched = r, !.pc = "open"]
         ELSE [tasks[i] EXCEPT !.fetched = r, !.pc = "match"]], i, caches)
    /\ UNCHANGED <<caches, worker>>

\* A network-first handler that stores whatever the network answered.
NfFetchResolveStoresAll(i) ==
  \E r \in NetworkResponses :
    /\ tasks[i].kind = "nf" /\ tasks[i].pc = "fetch"
    /\ tasks' = Others([tasks EXCEPT ![i] = [tasks[i] EXCEPT !.fetched = r, !.pc = "open"]],
                       i, caches)
    /\ UNCHANGED <<caches, worker>>

\* const networkResponse = await fetch(request); if (networkResponse.ok) ...
NfFetchResolve(i) ==
  \E r \in NetworkResponses :
    /\ tasks[i].kind = "nf" /\ tasks[i].pc = "fetch"
    /\ tasks' = Others([tasks EXCEPT ![i] =
         IF Ok(r) THEN [tasks[i] EXCEPT !.fetched = r, !.pc = "open"]
         ELSE Finish([tasks[i] EXCEPT !.fetched = r], r)], i, caches)
    /\ UNCHANGED <<caches, worker>>

NfFetchReject(i) ==
  /\ tasks[i].kind = "nf" /\ tasks[i].pc = "fetch"
  /\ tasks' = Others([tasks EXCEPT ![i] = [tasks[i] EXCEPT !.pc = "match"]], i, caches)
  /\ UNCHANGED <<caches, worker>>

NfOpen(i) ==
  /\ tasks[i].kind = "nf" /\ tasks[i].pc = "open"
  /\ OpenThenPut(i)

\* return caches.match('/offline.html') || new Response(getOfflineHTML(), ...)
\* The left operand is the promise caches.match returns.
NavigateFallback == JsOr(PromiseValue, OfflineHTMLResponse)

\* A fallback that looks the request up in the runtime partition alone.
NfMatchRuntimeOnly(i) ==
  LET c == CacheMatch(EntriesOf(caches, RUNTIME_CACHE_NAME), tasks[i].url) IN
  /\ tasks[i].kind = "nf" /\ tasks[i].pc = "match"
  /\ tasks' = Others([tasks EXCEPT ![i] =
       IF Truthy(c) THEN Finish([tasks[i] EXCEPT !.cached = c], c)
       ELSE IF tasks[i].mode = "navigate"
       THEN [tasks[i] EXCEPT !.cached = c, !.pc = "offline"]
       ELSE Finish([tasks[i] EXCEPT !.cached = c], Unavailable503)], i, caches)
  /\ UNCHANGED <<caches, worker>>

\* catch (error) { const cachedResponse = await caches.match(request); ... }
NfMatch(i) ==
  LET c == CachesMatch(caches, tasks[i].url) IN
  /\ tasks[i].kind = "nf" /\ tasks[i].pc = "match"
  /\ tasks' = Others([tasks EXCEPT ![i] =
       IF Truthy(c) THEN Finish([tasks[i] EXCEPT !.cached = c], c)
       ELSE IF tasks[i].mode = "navigate"
       THEN IF NavigateFallback.t = "promise"
            THEN [tasks[i] EXCEPT !.cached = c, !.pc = "offline"]
            ELSE Finish([tasks[i] EXCEPT !.cached = c], NavigateFallback)
       ELSE Finish([tasks[i] EXCEPT !.cached = c], Unavailable503)], i, caches)
  /\ UNCHANGED <<caches, worker>>

\* The returned promise of caches.match('/offline.html') settles: the
\* handler's result is whatever it found.
NfOfflineMatch(i) ==
  /\ tasks[i].kind = "nf" /\ tasks[i].pc = "offline"
  /\ tasks' = Others([tasks EXCEPT ![i] = Finish(tasks[i], CachesMatch(caches, OfflineURL))], i, caches)
  /\ UNCHANGED <<caches, worker>>

\* The write issued by cache.put reaches the Cache object.
PutComplete(i) ==
  LET cs == PutThrough(caches, tasks[i].handle, tasks[i].url, tasks[i].fetched) IN
  /\ tasks[i].kind \in {"nf", "cf", "swr"} /\ tasks[i].pc = "put"
  /\ caches' = cs
  /\ tasks' = Others([tasks EXCEPT ![i] = [tasks[i] EXCEPT !.pc = "done"]], i, cs)
  /\ UNCHANGED worker

(* ------------------------ cacheFirstStrategy -------------------------- *)

CfMatch(i) ==
  LET c == CachesMatch(caches, tasks[i].url) IN
  /\ tasks[i].kind = "cf" /\ tasks[i].pc = "match"
  /\ tasks' = Others([tasks EXCEPT ![i] =
       IF Truthy(c) THEN Finish([tasks[i] EXCEPT !.cached = c], c)
       ELSE [tasks[i] EXCEPT !.cached = c, !.pc = "fetch", !.fetches = @ + 1]], i, caches)
  /\ UNCHANGED <<caches, worker>>

\* A cache-first handler that stores whatever the network answered.
CfFetchResolveStoresAll(i) ==
  \E r \in NetworkResponses :
    /\ tasks[i].kind = "cf" /\ tasks[i].pc = "fetch"
    /\ tasks' = Others([tasks EXCEPT ![i] = [tasks[i] EXCEPT !.fetched = r, !.pc = "open"]],
                       i, caches)
    /\ UNCHANGED <<caches, worker>>

CfFetchResolve(i) ==
  \E r \in NetworkResponses :
    /\ tasks[i].kind = "cf" /\ tasks[i].pc = "fetch"
    /\ tasks' = Others([tasks EXCEPT ![i] =
         IF Ok(r) THEN [tasks[i] EXCEPT !.fetched = r, !.pc = "open"]
         ELSE Finish([tasks[i] EXCEPT !.fetched = r], r)], i, caches)
    /\ UNCHANGED <<caches, worker>>

\* A cache-first handler without its try/catch: the rejection of the fetch
\* is the handler's.
CfFetchRejectThrows(i) ==
  /\ tasks[i].kind = "cf" /\ tasks[i].pc = "fetch"
  /\ tasks' = Others([tasks EXCEPT ![i] = Finish(tasks[i], Rejected)], i, caches)
  /\ UNCHANGED <<caches, worker>>

\* catch (error) { return new Response('Resource not available', { status: 404 }) }
CfFetchReject(i) ==
  /\ tasks[i].kind = "cf" /\ tasks[i].pc = "fetch"
  /\ tasks' = Others([tasks EXCEPT ![i] = Finish(tasks[i], NotFound404)], i, caches)
  /\ UNCHANGED <<caches, worker>>

CfOpen(i) ==
  /\ tasks[i].kind = "cf" /\ tasks[i].pc = "open"
  /\ OpenThenPut(i)

(* ------------------------- cacheOnlyStrategy -------------------------- *)

\* A cache-only handler that answers a miss with a synthesized 503.
CoMatchWithFallback(i) ==
  LET c == CachesMatch(caches, tasks[i].url) IN
  /\ tasks[i].kind = "co" /\ tasks[i].pc = "match"
  /\ tasks' = Others([tasks EXCEPT ![i] =
       Finish([tasks[i] EXCEPT !.cached = c], JsOr(c, Unavailable503))], i, caches)
  /\ UNCHANGED <<caches, worker>>

CoMatch(i) ==
  LET c == CachesMatch(caches, tasks[i].url) IN
  /\ tasks[i].kind = "co" /\ tasks[i].pc = "match"
  /\ tasks' = Others([tasks EXCEPT ![i] = Finish([tasks[i] EXCEPT !.cached = c], c)], i, caches)
  /\ UNCHANGED <<caches, worker>>

(* -------------------- staleWhileRevalidateStrategy -------------------- *)

\* A return expression that prefers the network to the cached response.
SwrReturnNetworkFirst(cached) == JsOr(PromiseValue, cached)

\* return cachedResponse || networkResponsePromise || new Response(..., 503)
\* The middle operand is the promise of the fetch chain.
SwrReturn(cached) == JsOr(JsOr(cached, PromiseValue), Unavailable503)

\* The lookup settles, the fetch is issued and the function returns.
SwrMatch(i) ==
  LET c == CachesMatch(caches, tasks[i].url)
      ret == SwrReturn(c) IN
  /\ tasks[i].kind = "swr" /\ tasks[i].pc = "match"
  /\ tasks' = Others([tasks EXCEPT ![i] =
       [tasks[i] EXCEPT !.cached = c, !.fetches = @ + 1, !.pc = "fetch",
                        !.result = IF ret.t = "promise" THEN Pending ELSE ret,
                        !.delivered = ret.t # "promise"]], i, caches)
  /\ UNCHANGED <<caches, worker>>

\* .then((networkResponse) => { if (ok) caches.open(...).then(put); return networkResponse; })
SwrFetchResolve(i) ==
  \E r \in NetworkResponses :
    /\ tasks[i].kind = "swr" /\ tasks[i].pc = "fetch"
    /\ tasks' = Others([tasks EXCEPT ![i] =
         [tasks[i] EXCEPT !.fetched = r,
                          !.pc = IF Ok(r) THEN "open" ELSE "done",
                          !.result = IF tasks[i].delivered THEN @ ELSE r,
                          !.delivered = TRUE]], i, caches)
    /\ UNCHANGED <<caches, worker>>

\* .catch(() => null)
SwrFetchReject(i) ==
  /\ tasks[i].kind = "swr" /\ tasks[i].pc = "fetch"
  /\ tasks' = Others([tasks EXCEPT ![i] =
       [tasks[i] EXCEPT !.pc = "done",
                        !.result = IF tasks[i].delivered THEN @ ELSE Null,
                        !.delivered = TRUE]], i, caches)
  /\ UNCHANGED <<caches, worker>>

\* cache.then(c => c.put(request, networkResponse.clone()))
SwrOpen(i) ==
  LET cs == CachesOpen(caches, RUNTIME_CACHE_NAME) IN
  /\ tasks[i].kind = "swr" /\ tasks[i].pc = "open"
  /\ caches' = cs
  /\ tasks' = Others([tasks EXCEPT ![i] =
       [tasks[i] EXCEPT !.handle = RUNTIME_CACHE_NAME, !.puts = @ + 1, !.pc = "put"]], i, cs)
  /\ UNCHANGED worker

(* ------------------------------ install ------------------------------- *)

OkResponses == {r \in NetworkResponses : Ok(r)}

\* The install listener: caches.open(STATIC_CACHE_NAME) is issued.
InstallEvent(i) ==
  /\ Free(i)
  /\ tasks' = Others([tasks EXCEPT ![i] =
       [IdleTask EXCEPT !.kind = "install", !.pc = "open"]], i, caches)
  /\ UNCHANGED <<caches, worker>>

\* caches.open resolves and cache.addAll(STATIC_ASSETS) is issued.
InstallOpen(i) ==
  LET cs == CachesOpen(caches, STATIC_CACHE_NAME) IN
  /\ tasks[i].kind = "install" /\ tasks[i].pc = "open"
  /\ caches' = cs
  /\ tasks' = Others([tasks EXCEPT ![i] =
       [tasks[i] EXCEPT !.handle = STATIC_CACHE_NAME, !.pc = "addAll"]], i, cs)
  /\ UNCHANGED worker

\* A catch handler that would also request skipWaiting.
InstallCatchSkipping(i) ==
  [tasks[i] EXCEPT !.failed = TRUE, !.pc = "done", !.delivered = TRUE,
                   !.result = Undefined, !.calls = @ \cup {"skipWaiting"}]

\* A catch handler that throws the error again.
InstallCatchRethrows(i) ==
  [tasks[i] EXCEPT !.failed = TRUE, !.pc = "done", !.delivered = TRUE, !.result = Rejected]

\* The .catch of the chain: the error is logged, the promise given to
\* waitUntil is fulfilled, and skipWaiting has not been called.
InstallCatch(i) ==
  [tasks[i] EXCEPT !.failed = TRUE, !.pc = "done", !.delivered = TRUE, !.result = Undefined]

\* caches.open rejects.
InstallOpenFail(i) ==
  /\ tasks[i].kind = "install" /\ tasks[i].pc = "open"
  /\ tasks' = Others([tasks EXCEPT ![i] = InstallCatch(i)], i, caches)
  /\ UNCHANGED <<caches, worker>>

\* The requests cache.addAll(STATIC_ASSETS) makes of the paths.
AssetURLs == [k \in 1..Len(STATIC_ASSETS) |-> Resolve(STATIC_ASSETS[k])]

\* What the fetches of one cache.addAll may answer when all of them are ok:
\* every asset in the same release, or two releases mixed.
Batches ==
  { [k \in 1..Len(STATIC_ASSETS) |-> r] : r \in OkResponses }
  \cup { [k \in 1..Len(STATIC_ASSETS) |->
           IF k % 2 = 1 THEN Response(200, "a", 100) ELSE Response(200, "b", 250)] }

\* The puts of cache.addAll, in the order of the list.
RECURSIVE AddAll(_, _, _, _)
AddAll(entries, assets, batch, k) ==
  IF k > Len(assets) THEN entries
  ELSE AddAll(CachePut(entries, assets[k], batch[k]), assets, batch, k + 1)

\* cache.addAll resolves: every asset was fetched with an ok response and
\* all of them are stored in one go.  The next .then calls skipWaiting().
InstallAddAll(i) ==
  \E batch \in Batches :
    LET cs == [k \in 1..Len(caches) |->
                 IF caches[k].name = tasks[i].handle
                 THEN [caches[k] EXCEPT !.entries = AddAll(@, AssetURLs, batch, 1)]
                 ELSE caches[k]] IN
    /\ tasks[i].kind = "install" /\ tasks[i].pc = "addAll"
    /\ caches' = cs
    /\ tasks' = Others([tasks EXCEPT ![i] =
         [tasks[i] EXCEPT !.batch = batch, !.puts = Len(STATIC_ASSETS),
                          !.again = (HandleEntries(tasks[i]) =
                                       [k \in 1..Len(AssetURLs) |-> [url |-> AssetURLs[k], resp |-> batch[k]]]),
                          !.fetches = Len(STATIC_ASSETS),
                          !.calls = @ \cup {"skipWaiting"}, !.pc = "skip"]], i, cs)
    /\ worker' = [worker EXCEPT !.skipWaiting = TRUE]

\* cache.addAll rejects (a fetch rejected or answered non-ok): nothing is
\* stored.
InstallAddAllFail(i) ==
  /\ tasks[i].kind = "install" /\ tasks[i].pc = "addAll"
  /\ tasks' = Others([tasks EXCEPT ![i] =
       [InstallCatch(i) EXCEPT !.fetches = Len(STATIC_ASSETS)]], i, caches)
  /\ UNCHANGED <<caches, worker>>

\* The promise of skipWaiting() resolves: the chain is fulfilled.
InstallDone(i) ==
  /\ tasks[i].kind = "install" /\ tasks[i].pc = "skip"
  /\ tasks' = Others([tasks EXCEPT ![i] = Finish(tasks[i], Undefined)], i, caches)
  /\ UNCHANGED <<caches, worker>>

\* The promise of skipWaiting() rejects: the .catch logs it.
InstallSkipFail(i) ==
  /\ tasks[i].kind = "install" /\ tasks[i].pc = "skip"
  /\ tasks' = Others([tasks EXCEPT ![i] = InstallCatch(i)], i, caches)
  /\ UNCHANGED <<caches, worker>>

(* ------------------------------ activate ------------------------------ *)

\* A filter that forgets to spare the two current partitions.
IsOldCacheByPrefix(name) == StartsWith(Chars(name), Chars(NamePrefix))

\* cacheName.startsWith('invomodo-') &&
\*   ![STATIC_CACHE_NAME, RUNTIME_CACHE_NAME].includes(cacheName)
IsOldCache(name) ==
  /\ StartsWith(Chars(name), Chars(NamePrefix))
  /\ name \notin {STATIC_CACHE_NAME, RUNTIME_CACHE_NAME}

\* The activate listener: caches.keys() is issued.
ActivateEvent(i) ==
  /\ Free(i)
  /\ tasks' = Others([tasks EXCEPT ![i] =
       [IdleTask EXCEPT !.kind = "activate", !.pc = "keys", !.pre = caches]], i, caches)
  /\ UNCHANGED <<caches, worker>>

\* caches.keys() resolves; a caches.delete is issued for every old name.
ActivateKeys(i) ==
  LET names == Keys(caches) IN
  /\ tasks[i].kind = "activate" /\ tasks[i].pc = "keys"
  /\ tasks' = Others([tasks EXCEPT ![i] =
       [tasks[i] EXCEPT !.names = names, !.pc = "delete",
                        !.todo = {names[k] : k \in {x \in 1..Len(names) : IsOldCache(names[x])}}]],
       i, caches)
  /\ UNCHANGED <<caches, worker>>

\* The .catch of the chain: the error is logged and the promise given to
\* waitUntil is fulfilled.
ActivateCatch(i) ==
  [tasks[i] EXCEPT !.failed = TRUE, !.delivered = TRUE, !.result = Undefined]

\* caches.keys() rejects.
ActivateKeysFail(i) ==
  /\ tasks[i].kind = "activate" /\ tasks[i].pc = "keys"
  /\ tasks' = Others([tasks EXCEPT ![i] = [ActivateCatch(i) EXCEPT !.pc = "done"]], i, caches)
  /\ UNCHANGED <<caches, worker>>

\* One of the deletions finishes.
ActivateDelete(i, n) ==
  LET cs == CachesDelete(caches, n) IN
  /\ tasks[i].kind = "activate" /\ tasks[i].pc = "delete" /\ n \in tasks[i].todo
  /\ caches' = cs
  /\ tasks' = Others([tasks EXCEPT ![i] = [tasks[i] EXCEPT !.todo = @ \ {n}]], i, cs)
  /\ UNCHANGED worker

\* One of the deletions rejects: Promise.all rejects and the .catch logs
\* it, so the promise given to waitUntil is fulfilled without
\* clients.claim(); the other deletions go on.
ActivateDeleteFail(i, n) ==
  /\ tasks[i].kind = "activate" /\ tasks[i].pc = "delete" /\ n \in tasks[i].todo
  /\ tasks' = Others([tasks EXCEPT ![i] = [ActivateCatch(i) EXCEPT !.todo = @ \ {n}]], i, caches)
  /\ UNCHANGED <<caches, worker>>

\* Every deletion has finished: clients.claim() is called when none
\* rejected; when one did, the chain was settled by the .catch already.
ActivateClaim(i) ==
  /\ tasks[i].kind = "activate" /\ tasks[i].pc = "delete" /\ tasks[i].todo = {}
  /\ tasks' = Others([tasks EXCEPT ![i] =
       IF tasks[i].failed THEN [tasks[i] EXCEPT !.pc = "done"]
       ELSE [tasks[i] EXCEPT !.pc = "claim", !.calls = @ \cup {"claim"}]], i, caches)
  /\ worker' = [worker EXCEPT !.claimed = IF tasks[i].failed THEN @ ELSE TRUE]
  /\ UNCHANGED caches

\* The promise of clients.claim() resolves: the chain is fulfilled.
ActivateDone(i) ==
  /\ tasks[i].kind = "activate" /\ tasks[i].pc = "claim"
  /\ tasks' = Others([tasks EXCEPT ![i] = Finish(tasks[i], Undefined)], i, caches)
  /\ UNCHANGED <<caches, worker>>

\* The promise of clients.claim() rejects: the .catch logs it.
ActivateClaimFail(i) ==
  /\ tasks[i].kind = "activate" /\ tasks[i].pc = "claim"
  /\ tasks' = Others([tasks EXCEPT ![i] = [ActivateCatch(i) EXCEPT !.pc = "done"]], i, caches)
  /\ UNCHANGED <<caches, worker>>

(* --------------------------- message listener ------------------------- *)

\* 'CLEAR_CACHE': clearAllCaches() is started and runs to its first await,
\* caches.keys().
ClearEvent(i) ==
  /\ Free(i)
  /\ tasks' = Others([tasks EXCEPT ![i] =
       [IdleTask EXCEPT !.kind = "clear", !.pc = "keys"]], i, caches)
  /\ UNCHANGED <<caches, worker>>

\* A clear that deletes the runtime partition only.
ClearKeysRuntimeOnly(i) ==
  LET names == SelectSeq(Keys(caches), LAMBDA n : n = RUNTIME_CACHE_NAME) IN
  /\ tasks[i].kind = "clear" /\ tasks[i].pc = "keys"
  /\ tasks' = Others([tasks EXCEPT ![i] =
       [tasks[i] EXCEPT !.names = names, !.pc = "delete",
                        !.todo = {names[k] : k \in 1..Len(names)}]], i, caches)
  /\ UNCHANGED <<caches, worker>>

\* caches.keys() resolves; a caches.delete is issued for every name.
ClearKeys(i) ==
  LET names == Keys(caches) IN
  /\ tasks[i].kind = "clear" /\ tasks[i].pc = "keys"
  /\ tasks' = Others([tasks EXCEPT ![i] =
       [tasks[i] EXCEPT !.names = names, !.pc = "delete",
                        !.todo = {names[k] : k \in 1..Len(names)}]], i, caches)
  /\ UNCHANGED <<caches, worker>>

ClearDelete(i, n) ==
  LET cs == CachesDelete(caches, n) IN
  /\ tasks[i].kind = "clear" /\ tasks[i].pc = "delete" /\ n \in tasks[i].todo
  /\ caches' = cs
  /\ tasks' = Others([tasks EXCEPT ![i] = [tasks[i] EXCEPT !.todo = @ \ {n}]], i, cs)
  /\ UNCHANGED worker

\* await Promise.all(deletionPromises) returns.
ClearDone(i) ==
  /\ tasks[i].kind = "clear" /\ tasks[i].pc = "delete" /\ tasks[i].todo = {}
  /\ tasks' = Others([tasks EXCEPT ![i] =
       [tasks[i] EXCEPT !.pc = "done", !.delivered = TRUE]], i, caches)
  /\ UNCHANGED <<caches, worker>>

\* 'GET_CACHE_STATUS': getCacheStatus() is started and runs to its first
\* await, caches.keys().
StatusEvent(i) ==
  /\ Free(i)
  /\ tasks' = Others([tasks EXCEPT ![i] =
       [IdleTask EXCEPT !.kind = "status", !.pc = "keys", !.pre = caches,
                        !.afterClear = \E j \in Slots : tasks[j].kind = "clear"]], i, caches)
  /\ UNCHANGED <<caches, worker>>

\* status.cacheDetails[cacheName] = { itemCount, size }
SetDetail(details, name, itemCount, size) ==
  LET d == [name |-> name, itemCount |-> itemCount, size |-> size] IN
  IF \E k \in 1..Len(details) : details[k].name = name
  THEN [k \in 1..Len(details) |-> IF details[k].name = name THEN d ELSE details[k]]
  ELSE Append(details, d)

\* A size that counts every entry as one.
BlobSizeOne(resp) == 1

\* blob.size of a stored response.
BlobSize(resp) == resp.size

\* getCacheStatus().then(status => event.ports[0].postMessage(status)):
\* the value getCacheStatus resolves with is posted on the port.
Reply(t, v) == [Finish(t, v) EXCEPT !.replies = @ + 1]

\* The end of the loop body for one partition: its details are recorded and
\* the total grows; after the last partition the status is returned, and
\* the message listener posts it on the port.
EndOfCache(t) ==
  LET st == [t.status EXCEPT
               !.cacheDetails = SetDetail(@, t.names[t.idx], Len(t.requests), t.cacheSize),
               !.totalSize = @ + t.cacheSize] IN
  IF t.idx >= Len(t.names)
  THEN Reply([t EXCEPT !.status = st], StatusValue)
  ELSE [t EXCEPT !.status = st, !.idx = @ + 1, !.pc = "open"]

\* The end of the loop body for one request of a partition.
EndOfEntry(t) ==
  IF t.entry >= Len(t.requests) THEN EndOfCache(t) ELSE [t EXCEPT !.entry = @ + 1]

\* caches.keys() resolves.
StatusKeys(i) ==
  LET names == Keys(caches)
      t == [tasks[i] EXCEPT !.names = names, !.status.cacheNames = names] IN
  /\ tasks[i].kind = "status" /\ tasks[i].pc = "keys"
  /\ tasks' = Others([tasks EXCEPT ![i] =
       IF names = <<>> THEN Reply(t, StatusValue)
       ELSE [t EXCEPT !.idx = 1, !.pc = "open"]], i, caches)
  /\ UNCHANGED <<caches, worker>>

\* A getCacheStatus without its catch: the error leaves the function and
\* nothing is posted.
StatusCatchThrows(i) == Finish([tasks[i] EXCEPT !.failed = TRUE], Rejected)

\* The catch of getCacheStatus: { error: error.message } is returned and
\* posted.
StatusCatch(i) == Reply([tasks[i] EXCEPT !.failed = TRUE], ErrorValue)

\* caches.keys() rejects.
StatusKeysFail(i) ==
  /\ tasks[i].kind = "status" /\ tasks[i].pc = "keys"
  /\ tasks' = Others([tasks EXCEPT ![i] = StatusCatch(i)], i, caches)
  /\ UNCHANGED <<caches, worker>>

\* const cache = await caches.open(cacheName);
StatusOpen(i) ==
  LET name == tasks[i].names[tasks[i].idx]
      cs == CachesOpen(caches, name) IN
  /\ tasks[i].kind = "status" /\ tasks[i].pc = "open"
  /\ caches' = cs
  /\ tasks' = Others([tasks EXCEPT ![i] =
       [tasks[i] EXCEPT !.handle = name, !.pc = "cachekeys"]], i, cs)
  /\ UNCHANGED worker

\* caches.open rejects.
StatusOpenFail(i) ==
  /\ tasks[i].kind = "status" /\ tasks[i].pc = "open"
  /\ tasks' = Others([tasks EXCEPT ![i] = StatusCatch(i)], i, caches)
  /\ UNCHANGED <<caches, worker>>

\* const requests = await cache.keys();
StatusCacheKeys(i) ==
  LET entries == HandleEntries(tasks[i])
      t == [tasks[i] EXCEPT !.requests = [k \in 1..Len(entries) |-> entries[k].url],
                            !.cacheSize = 0, !.entry = 1, !.pc = "match"] IN
  /\ tasks[i].kind = "status" /\ tasks[i].pc = "cachekeys"
  /\ tasks' = Others([tasks EXCEPT ![i] =
       IF entries = <<>> THEN EndOfCache(t) ELSE t], i, caches)
  /\ UNCHANGED <<caches, worker>>

\* cache.keys() rejects.
StatusCacheKeysFail(i) ==
  /\ tasks[i].kind = "status" /\ tasks[i].pc = "cachekeys"
  /\ tasks' = Others([tasks EXCEPT ![i] = StatusCatch(i)], i, caches)
  /\ UNCHANGED <<caches, worker>>

\* const response = await cache.match(request);
\* if (response) cacheSize += (await response.blob()).size;
StatusMatch(i) ==
  LET resp == CacheMatch(HandleEntries(tasks[i]), tasks[i].requests[tasks[i].entry]) IN
  /\ tasks[i].kind = "status" /\ tasks[i].pc = "match"
  /\ tasks' = Others([tasks EXCEPT ![i] =
       EndOfEntry([tasks[i] EXCEPT
                     !.cacheSize = IF Truthy(resp) THEN @ + BlobSize(resp) ELSE @])], i, caches)
  /\ UNCHANGED <<caches, worker>>

\* cache.match or response.blob() rejects: the inner catch warns and the
\* entry adds nothing to the size.
StatusMatchFail(i) ==
  /\ tasks[i].kind = "status" /\ tasks[i].pc = "match"
  /\ tasks' = Others([tasks EXCEPT ![i] =
       EndOfEntry([tasks[i] EXCEPT !.failed = TRUE])], i, caches)
  /\ UNCHANGED <<caches, worker>>

(* ------------------------------ cacheUrls ----------------------------- *)

\* The urls of a 'CACHE_URLS' message: lists of URLs, the empty list among
\* them.
UrlLists == { <<>>, <<URL_PAGE>>, <<URL_PAGE, URL_API>> }

\* 'CACHE_URLS' with data.urls missing or not an array: nothing is started.
CacheUrlsIgnored(i) ==
  /\ Free(i)
  /\ tasks' = Others([tasks EXCEPT ![i] = [IdleTask EXCEPT !.kind = "cacheUrls"]], i, caches)
  /\ UNCHANGED <<caches, worker>>

\* 'CACHE_URLS' with a list: cacheUrls(urls) is started and runs to its
\* first await, caches.open(RUNTIME_CACHE_NAME).
CacheUrlsFrom(i, lists) ==
  \E urls \in lists :
    /\ Free(i)
    /\ tasks' = Others([tasks EXCEPT ![i] =
         [IdleTask EXCEPT !.kind = "cacheUrls", !.pc = "open", !.requests = urls]], i, caches)
    /\ UNCHANGED <<caches, worker>>

CacheUrlsEvent(i) == CacheUrlsFrom(i, UrlLists)

\* caches.open resolves; urls.map starts one callback per URL, each fetching
\* its URL, and Promise.all waits for them (at once when there is none).
CacheUrlsOpen(i) ==
  LET cs == CachesOpen(caches, RUNTIME_CACHE_NAME)
      n == Len(tasks[i].requests) IN
  /\ tasks[i].kind = "cacheUrls" /\ tasks[i].pc = "open"
  /\ caches' = cs
  /\ tasks' = Others([tasks EXCEPT ![i] =
       [tasks[i] EXCEPT !.handle = RUNTIME_CACHE_NAME, !.fetches = n,
                        !.sub = [k \in 1..n |-> "fetch"],
                        !.batch = [k \in 1..n |-> Pending],
                        !.pc = IF n = 0 THEN "done" ELSE "all"]], i, cs)
  /\ UNCHANGED worker

\* caches.open rejects: the outer catch logs it.
CacheUrlsOpenFail(i) ==
  /\ tasks[i].kind = "cacheUrls" /\ tasks[i].pc = "open"
  /\ tasks' = Others([tasks EXCEPT ![i] =
       [tasks[i] EXCEPT !.failed = TRUE, !.pc = "done"]], i, caches)
  /\ UNCHANGED <<caches, worker>>

\* The fetch of the k-th URL resolves: an ok response is put, awaited.
CacheUrlsFetchResolve(i, k) ==
  \E r \in NetworkResponses :
    /\ tasks[i].kind = "cacheUrls" /\ tasks[i].pc = "all"
    /\ k \in 1..Len(tasks[i].sub) /\ tasks[i].sub[k] = "fetch"
    /\ tasks' = Others([tasks EXCEPT ![i] =
         [tasks[i] EXCEPT !.batch[k] = r,
                          !.sub[k] = IF Ok(r) THEN "put" ELSE "skipped",
                          !.puts = IF Ok(r) THEN @ + 1 ELSE @]], i, caches)
    /\ UNCHANGED <<caches, worker>>

\* A rejected fetch that takes the rest of the list down with it.
CacheUrlsFetchRejectAborts(i, k) ==
  /\ tasks[i].kind = "cacheUrls" /\ tasks[i].pc = "all"
  /\ k \in 1..Len(tasks[i].sub) /\ tasks[i].sub[k] = "fetch"
  /\ tasks' = Others([tasks EXCEPT ![i] =
       [tasks[i] EXCEPT !.sub = [m \in 1..Len(tasks[i].sub) |-> "failed"]]], i, caches)
  /\ UNCHANGED <<caches, worker>>

\* The fetch of the k-th URL rejects: the inner catch warns.
CacheUrlsFetchReject(i, k) ==
  /\ tasks[i].kind = "cacheUrls" /\ tasks[i].pc = "all"
  /\ k \in 1..Len(tasks[i].sub) /\ tasks[i].sub[k] = "fetch"
  /\ tasks' = Others([tasks EXCEPT ![i] = [tasks[i] EXCEPT !.sub[k] = "failed"]], i, caches)
  /\ UNCHANGED <<caches, worker>>

\* await cache.put(url, response) of the k-th URL returns.
CacheUrlsPut(i, k) ==
  LET cs == PutThrough(caches, tasks[i].handle, tasks[i].requests[k], tasks[i].batch[k]) IN
  /\ tasks[i].kind = "cacheUrls" /\ tasks[i].pc = "all"
  /\ k \in 1..Len(tasks[i].sub) /\ tasks[i].sub[k] = "put"
  /\ caches' = cs
  /\ tasks' = Others([tasks EXCEPT ![i] = [tasks[i] EXCEPT !.sub[k] = "stored"]], i, cs)
  /\ UNCHANGED worker

\* await Promise.all(cachePromises) returns: every callback is through.
\* Nothing is posted to the sender.
CacheUrlsDone(i) ==
  /\ tasks[i].kind = "cacheUrls" /\ tasks[i].pc = "all"
  /\ \A k \in 1..Len(tasks[i].sub) : tasks[i].sub[k] \in {"stored", "skipped", "failed"}
  /\ tasks' = Others([tasks EXCEPT ![i] = [tasks[i] EXCEPT !.pc = "done"]], i, caches)
  /\ UNCHANGED <<caches, worker>>

(* --------------------------- specifications --------------------------- *)

NfStep(i) ==
  \/ NfFetchResolve(i) \/ NfFetchReject(i) \/ NfOpen(i) \/ NfMatch(i) \/ NfOfflineMatch(i)

CfStep(i) ==
  \/ CfMatch(i) \/ CfFetchResolve(i) \/ CfFetchReject(i) \/ CfOpen(i)

SwrStep(i) ==
  \/ SwrMatch(i) \/ SwrFetchResolve(i) \/ SwrFetchReject(i) \/ SwrOpen(i)

InstallStep(i) ==
  \/ InstallOpen(i) \/ InstallOpenFail(i) \/ InstallAddAll(i) \/ InstallAddAllFail(i)
  \/ InstallDone(i) \/ InstallSkipFail(i)

ActivateStep(i) ==
  \/ ActivateKeys(i) \/ ActivateKeysFail(i) \/ ActivateClaim(i)
  \/ ActivateDone(i) \/ ActivateClaimFail(i)
  \/ \E n \in tasks[i].todo : ActivateDelete(i, n) \/ ActivateDeleteFail(i, n)

ClearStep(i) ==
  \/ ClearKeys(i) \/ ClearDone(i)
  \/ \E n \in tasks[i].todo : ClearDelete(i, n)

StatusStep(i) ==
  \/ StatusKeys(i) \/ StatusKeysFail(i) \/ StatusOpen(i) \/ StatusOpenFail(i)
  \/ StatusCacheKeys(i) \/ StatusCacheKeysFail(i) \/ StatusMatch(i) \/ StatusMatchFail(i)

CacheUrlsStep(i) ==
  \/ CacheUrlsOpen(i) \/ CacheUrlsOpenFail(i) \/ CacheUrlsDone(i)
  \/ \E k \in 1..Len(tasks[i].sub) :
       CacheUrlsFetchResolve(i, k) \/ CacheUrlsFetchReject(i, k) \/ CacheUrlsPut(i, k)

\* The whole worker.
Next ==
  \E i \in Slots :
    \/ FetchEvent(i) \/ NfStep(i) \/ CfStep(i) \/ CoMatch(i) \/ SwrStep(i) \/ PutComplete(i)
    \/ InstallEvent(i) \/ InstallStep(i)
    \/ ActivateEvent(i) \/ ActivateStep(i)
    \/ ClearEvent(i) \/ ClearStep(i)
    \/ StatusEvent(i) \/ StatusStep(i)
    \/ CacheUrlsIgnored(i) \/ CacheUrlsEvent(i) \/ CacheUrlsStep(i)

Spec == Init /\ [][Next]_vars

\* Requests to the API, as navigations and as subresource requests, next to
\* requests for the offline page, which the default strategy serves.
NfRequests ==
  { q \in Requests : q.method = "GET" /\ (q.url = URL_API \/ (q.url = URL_OFFLINE /\ q.mode = "cors")) }

NextNf ==
  \E i \in Slots :
    \/ FetchFrom(i, NfRequests) \/ NfStep(i) \/ SwrStep(i) \/ PutComplete(i)
    \/ ClearEvent(i) \/ ClearStep(i)

SpecNf == Init /\ [][NextNf]_vars

\* Requests under /static/ and requests for a declared static asset.
CfRequests == { q \in Requests : q.method = "GET" /\ q.url \in {URL_STATIC, URL_INDEX} }

NextCf ==
  \E i \in Slots :
    \/ FetchFrom(i, CfRequests) \/ CfStep(i) \/ CoMatch(i) \/ PutComplete(i)
    \/ ClearEvent(i) \/ ClearStep(i)

SpecCf == Init /\ [][NextCf]_vars

\* Requests the default strategy serves.
SwrRequests == { q \in Requests : q.method = "GET" /\ q.url = URL_PAGE }

NextSwr ==
  \E i \in Slots :
    \/ FetchFrom(i, SwrRequests) \/ SwrStep(i) \/ PutComplete(i)
    \/ ClearEvent(i) \/ ClearStep(i)

SpecSwr == Init /\ [][NextSwr]_vars

\* The lifecycle events, with a CLEAR_CACHE message in between.
NextLifecycle ==
  \E i \in Slots :
    \/ InstallEvent(i) \/ InstallStep(i)
    \/ ActivateEvent(i) \/ ActivateStep(i)
    \/ ClearEvent(i) \/ ClearStep(i)

SpecLifecycle == Init /\ [][NextLifecycle]_vars

\* The administration messages.
NextAdmin ==
  \E i \in Slots :
    \/ ClearEvent(i) \/ ClearStep(i)
    \/ StatusEvent(i) \/ StatusStep(i)

SpecAdmin == Init /\ [][NextAdmin]_vars

\* The fetch listener over every request while the network is down: every
\* fetch the strategies issue rejects.
NextOffline ==
  \E i \in Slots :
    \/ FetchEvent(i)
    \/ NfFetchReject(i) \/ NfMatch(i) \/ NfOfflineMatch(i)
    \/ CfMatch(i) \/ CfFetchReject(i)
    \/ CoMatch(i)
    \/ SwrMatch(i) \/ SwrFetchReject(i)

SpecOffline == Init /\ [][NextOffline]_vars

\* CACHE_URLS messages.
NextCacheUrls ==
  \E i \in Slots :
    \/ CacheUrlsIgnored(i) \/ CacheUrlsEvent(i) \/ CacheUrlsStep(i)

SpecCacheUrls == Init /\ [][NextCacheUrls]_vars

\* Everything that writes to the runtime partition: requests for each of the
\* three storing strategies and a CACHE_URLS message.
WriteRequests ==
  { q \in Requests : /\ q.method = "GET"
                     /\ q.url \in {URL_API, URL_STATIC, URL_PAGE}
                     /\ q.mode = "cors" \/ q.url = URL_API }

NextWrites ==
  \E i \in Slots :
    \/ FetchFrom(i, WriteRequests) \/ NfStep(i) \/ CfStep(i) \/ SwrStep(i) \/ PutComplete(i)
    \/ CacheUrlsFrom(i, {<<URL_PAGE>>}) \/ CacheUrlsStep(i)

SpecWrites == Init /\ [][NextWrites]_vars

\* A declared static asset, requested next to a request that ends like one
\* and lies under /static/, while CLEAR_CACHE messages and install events
\* arrive.
StaticAssetRequests ==
  { q \in Requests : /\ q.method = "GET" /\ q.mode = "cors"
                     /\ q.url \in {URL_INDEX, URL_STATIC_INDEX} }

NextStaticAssets ==
  \E i \in Slots :
    \/ FetchFrom(i, StaticAssetRequests)
    \/ CfStep(i) \/ CoMatch(i) \/ PutComplete(i)
    \/ ClearEvent(i) \/ ClearStep(i)
    \/ InstallEvent(i) \/ InstallStep(i)

SpecStaticAssets == Init /\ [][NextStaticAssets]_vars

(* ------------------------------ properties ---------------------------- *)

\* The responses stored under url, over all partitions.
Stored(cs, url) ==
  UNION { { cs[k].entries[m].resp :
              m \in {x \in 1..Len(cs[k].entries) : cs[k].entries[x].url = url} } :
          k \in 1..Len(cs) }

\* r is stored under url in the earliest partition that holds url.
FirstStored(cs, url, r) ==
  \E k \in 1..Len(cs) :
    /\ \E m \in 1..Len(cs[k].entries) :
         /\ cs[k].entries[m].url = url /\ cs[k].entries[m].resp = r
         /\ \A x \in 1..(m - 1) : cs[k].entries[x].url # url
    /\ \A j \in 1..(k - 1) : \A m \in 1..Len(cs[j].entries) : cs[j].entries[m].url # url

\* The handler of slot i has just taken the step that leaves pc.
Leaves(i, kind, pc) ==
  /\ tasks[i].kind = kind /\ tasks[i].pc = pc
  /\ tasks'[i].pc # pc

\* C1: a navigation handled by networkFirstStrategy whose fetch rejected
\* and for which no partition holds an entry resolves to the synthesized
\* offline page, status 200 -- never to "no response".
C1_OfflinePageForNavigation ==
  \A i \in Slots :
    ( /\ tasks[i].kind = "nf" /\ tasks[i].pc = "done"
      /\ tasks[i].mode = "navigate"
      /\ tasks[i].fetched = Pending
      /\ tasks[i].cached = Undefined )
    => tasks[i].result = OfflineHTMLResponse

\* C2: staleWhileRevalidateStrategy with no cached entry and a rejected
\* fetch resolves to a response with status 503, not to null.
C2_Unavailable503 ==
  \A i \in Slots :
    ( /\ tasks[i].kind = "swr" /\ tasks[i].pc = "done"
      /\ tasks[i].cached = Undefined
      /\ tasks[i].fetched = Pending )
    => (tasks[i].result.t = "response" /\ tasks[i].result.status = 503)

\* C3, as claimed: once networkFirstStrategy has delivered an ok network
\* response, the runtime partition holds a copy of it under the request.
C3_StoredAtDelivery ==
  \A i \in Slots :
    ( /\ tasks[i].kind = "nf" /\ tasks[i].delivered /\ tasks[i].pc = "put"
      /\ Ok(tasks[i].fetched) )
    => /\ tasks[i].result = tasks[i].fetched
       /\ CacheMatch(EntriesOf(caches, RUNTIME_CACHE_NAME), tasks[i].url) = tasks[i].fetched

\* C3, amended: networkFirstStrategy delivers the ok network response with
\* one put of a copy issued on the runtime partition's Cache and not
\* awaited; when that put completes on a partition that still exists, the
\* runtime partition holds the copy under the request.
C3_PutIssuedAtDelivery ==
  \A i \in Slots :
    tasks[i].kind = "nf" =>
      /\ tasks[i].pc = "open" => ~tasks[i].delivered /\ Ok(tasks[i].fetched) /\ tasks[i].puts = 0
      /\ tasks[i].pc = "put" =>
           /\ tasks[i].delivered /\ Ok(tasks[i].fetched) /\ tasks[i].puts = 1
           /\ tasks[i].result = tasks[i].fetched
      /\ (tasks[i].pc = "done" /\ Ok(tasks[i].fetched)) =>
           /\ tasks[i].puts = 1
           /\ tasks[i].result = tasks[i].fetched

C3_StoredOncePutCompletes ==
  /\ []C3_PutIssuedAtDelivery
  /\ [][\A i \in Slots :
          (Leaves(i, "nf", "put") /\ tasks[i].handle = RUNTIME_CACHE_NAME) =>
            /\ tasks'[i].pc = "done"
            /\ HasCache(caches', RUNTIME_CACHE_NAME)
            /\ Stored(<<[name |-> RUNTIME_CACHE_NAME,
                         entries |-> EntriesOf(caches', RUNTIME_CACHE_NAME)]>>,
                      tasks[i].url) = {tasks[i].fetched}]_vars

\* An ok response was delivered and its copy is in the runtime partition.
C3_Witness ==
  \E i \in Slots :
    /\ tasks[i].kind = "nf" /\ tasks[i].pc = "done" /\ Ok(tasks[i].fetched)
    /\ tasks[i].handle = RUNTIME_CACHE_NAME
    /\ Stored(caches, tasks[i].url) = {tasks[i].fetched}

\* C4: when some partition holds an entry for the request at lookup time,
\* cacheFirstStrategy returns that stored response (the one caches.match
\* finds first), fetches nothing and writes nothing.
C4_CacheFirstHit ==
  [][\A i \in Slots :
       (Leaves(i, "cf", "match") /\ Stored(caches, tasks[i].url) # {}) =>
         /\ tasks'[i].pc = "done" /\ tasks'[i].delivered
         /\ tasks'[i].result \in Stored(caches, tasks[i].url)
         /\ FirstStored(caches, tasks[i].url, tasks'[i].result)
         /\ tasks'[i].fetches = 0
         /\ tasks'[i].puts = 0
         /\ caches' = caches]_vars

\* A cache-first request was answered from a partition other than the
\* runtime partition.
C4_Witness ==
  \E i \in Slots :
    /\ tasks[i].kind = "cf" /\ tasks[i].pc = "done"
    /\ tasks[i].result \in Stored(caches, tasks[i].url)
    /\ Stored(<<[name |-> RUNTIME_CACHE_NAME,
                 entries |-> EntriesOf(caches, RUNTIME_CACHE_NAME)]>>, tasks[i].url) = {}
    /\ tasks[i].fetches = 0

\* C5: cacheOnlyStrategy never fetches and never writes; it resolves to
\* undefined when no partition holds the request, and to the stored
\* response when one does.
C5_NoFetchNoWrite ==
  \A i \in Slots : tasks[i].kind = "co" => tasks[i].fetches = 0 /\ tasks[i].puts = 0

C5_CacheOnly ==
  /\ []C5_NoFetchNoWrite
  /\ [][\A i \in Slots :
          Leaves(i, "co", "match") =>
            /\ tasks'[i].pc = "done" /\ tasks'[i].delivered
            /\ caches' = caches
            /\ Stored(caches, tasks[i].url) = {} => tasks'[i].result = Undefined
            /\ Stored(caches, tasks[i].url) # {} =>
                 FirstStored(caches, tasks[i].url, tasks'[i].result)]_vars

\* A cache-only request found nothing and resolved to undefined.
C5_Witness ==
  \E i \in Slots :
    /\ tasks[i].kind = "co" /\ tasks[i].pc = "done"
    /\ Stored(caches, tasks[i].url) = {}
    /\ tasks[i].result = Undefined

\* What the sweep is to leave of the partitions cs: the two current ones
\* and every one whose name lacks the prefix, each as it was.
KeptBySweep(cs) ==
  SelectSeq(cs, LAMBDA c :
    \/ c.name \in {STATIC_CACHE_NAME, RUNTIME_CACHE_NAME}
    \/ ~StartsWith(Chars(c.name), Chars(NamePrefix)))

\* C6: once the activate handler has completed with no deletion failing and
\* nothing else having changed the partitions meanwhile, the partitions are
\* the earlier ones minus those named 'invomodo-...' other than the two
\* current ones; the kept ones keep their contents.
C6_ActivationSweep ==
  \A i \in Slots :
    ( /\ tasks[i].kind = "activate" /\ tasks[i].pc = "done"
      /\ ~tasks[i].failed /\ ~tasks[i].disturbed )
    => caches = KeptBySweep(tasks[i].pre)

\* A sweep that found an old partition next to both current ones and a
\* foreign one.
C6_Witness ==
  \E i \in Slots :
    /\ tasks[i].kind = "activate" /\ tasks[i].pc = "done"
    /\ ~tasks[i].failed /\ ~tasks[i].disturbed
    /\ \A n \in {OLD_STATIC_CACHE_NAME, STATIC_CACHE_NAME, RUNTIME_CACHE_NAME, FOREIGN_CACHE_NAME} :
         HasCache(tasks[i].pre, n)
    /\ ~HasCache(caches, OLD_STATIC_CACHE_NAME)
    /\ EntriesOf(caches, STATIC_CACHE_NAME) # <<>>

\* C7: a GET_CACHE_STATUS message delivered right behind a CLEAR_CACHE
\* message is answered with no cache names and a total size of 0.
C7_EmptyStatusAfterClear ==
  \A i \in Slots :
    ( /\ tasks[i].kind = "status" /\ tasks[i].pc = "done"
      /\ tasks[i].afterClear
      /\ tasks[i].result = StatusValue )
    => /\ tasks[i].status.cacheNames = <<>>
       /\ tasks[i].status.totalSize = 0

RECURSIVE SumSizes(_)
SumSizes(entries) ==
  IF entries = <<>> THEN 0 ELSE Head(entries).resp.size + SumSizes(Tail(entries))

RECURSIVE SumAll(_)
SumAll(cs) == IF cs = <<>> THEN 0 ELSE SumSizes(Head(cs).entries) + SumAll(Tail(cs))

\* C8: GET_CACHE_STATUS over partitions nothing changes meanwhile, no read
\* failing, replies with the names of all partitions, for each its number
\* of entries and the sum of their body sizes, and the sum of those sums.
C8_StatusOfQuiescentCaches ==
  \A i \in Slots :
    ( /\ tasks[i].kind = "status" /\ tasks[i].pc = "done"
      /\ ~tasks[i].disturbed /\ ~tasks[i].failed )
    => LET cs == tasks[i].pre
           st == tasks[i].status IN
       /\ tasks[i].result = StatusValue /\ tasks[i].delivered
       /\ caches = cs
       /\ st.cacheNames = [k \in 1..Len(cs) |-> cs[k].name]
       /\ Len(st.cacheDetails) = Len(cs)
       /\ \A k \in 1..Len(cs) :
            /\ st.cacheDetails[k].name = cs[k].name
            /\ st.cacheDetails[k].itemCount = Len(cs[k].entries)
            /\ st.cacheDetails[k].size = SumSizes(cs[k].entries)
       /\ st.totalSize = SumAll(cs)

\* A status over three partitions holding 200, 250 and 250 bytes.
C8_Witness ==
  \E i \in Slots :
    /\ tasks[i].kind = "status" /\ tasks[i].pc = "done"
    /\ ~tasks[i].disturbed /\ ~tasks[i].failed
    /\ Len(tasks[i].status.cacheNames) = 3
    /\ tasks[i].status.totalSize = 700

\* The static partition right after one install that fetched batch.
FreshInstall(batch) ==
  [k \in 1..Len(STATIC_ASSETS) |-> [url |-> Resolve(STATIC_ASSETS[k]), resp |-> batch[k]]]

\* C9: an install whose fetches answer what the stored install's fetches
\* answered leaves the static partition as it was; after any install the
\* partition holds one entry per declared asset path, none twice.
C9_InstallIdempotent ==
  [][\A i \in Slots :
       ( /\ Leaves(i, "install", "addAll") /\ tasks'[i].pc = "skip"
         /\ tasks[i].handle = STATIC_CACHE_NAME ) =>
         LET before == EntriesOf(caches, STATIC_CACHE_NAME)
             after == EntriesOf(caches', STATIC_CACHE_NAME)
             batch == tasks'[i].batch IN
         /\ before = FreshInstall(batch) => after = before
         /\ Len(after) = Len(STATIC_ASSETS)
         /\ \A m, n \in 1..Len(after) : after[m].url = after[n].url => m = n
         /\ \A k \in 1..Len(STATIC_ASSETS) :
              \E m \in 1..Len(after) :
                after[m].url = Resolve(STATIC_ASSETS[k]) /\ after[m].resp = batch[k]]_vars

\* An install ran over the result of an install with the same responses.
C9_Witness ==
  \E i \in Slots :
    /\ tasks[i].kind = "install" /\ tasks[i].pc = "skip"
    /\ tasks[i].again
    /\ EntriesOf(caches, STATIC_CACHE_NAME) = FreshInstall(tasks[i].batch)

\* C10: every install event ends with skipWaiting requested, also when
\* opening the static partition or the addAll batch failed.
C10_SkipWaitingOnEveryInstall ==
  \A i \in Slots :
    (tasks[i].kind = "install" /\ tasks[i].pc = "done") => "skipWaiting" \in tasks[i].calls

\* C10 as the code has it: an install requests skipWaiting exactly when
\* opening the static partition and the addAll batch both succeeded, and
\* then after the batch was stored; when either step fails the failure is
\* caught and the install ends without the request.
C10_SkipWaitingOnlyAfterCaching ==
  \A i \in Slots :
    tasks[i].kind = "install" =>
      /\ tasks[i].pc \in {"open", "addAll"} => tasks[i].calls = {}
      /\ tasks[i].pc \in {"skip", "done"} =>
           /\ "skipWaiting" \in tasks[i].calls <=> tasks[i].batch \in Batches
           /\ ~tasks[i].failed => tasks[i].batch \in Batches
           /\ tasks[i].batch \notin Batches => tasks[i].batch = <<>> /\ tasks[i].failed

\* An install whose open or addAll failed has ended.
C10_Witness ==
  \E i \in Slots :
    /\ tasks[i].kind = "install" /\ tasks[i].pc = "done"
    /\ tasks[i].failed /\ tasks[i].calls = {}

\* Some pattern of the list occurs in the URL.
ContainsOneOf(url, patterns) ==
  \E k \in 1..Len(patterns) : Includes(Chars(url), Chars(patterns[k]))

\* C11: the fetch listener leaves a request alone (no respondWith, no
\* partition touched) when its method is not GET or its URL starts with
\* chrome-extension://; every other request goes to exactly one strategy:
\* network-first when a network-first pattern occurs in the URL, else
\* cache-first when a cache-first pattern occurs in it, else cache-only
\* when it ends with a declared static asset path, else
\* stale-while-revalidate.
C11_Routing ==
  [][\A i \in Slots :
       (tasks[i].pc = "done" /\ tasks'[i] # tasks[i] /\ tasks'[i].kind # "idle") =>
         LET t == tasks'[i] IN
         /\ caches' = caches
         /\ \A j \in Slots \ {i} : tasks'[j].kind \in {"idle", tasks[j].kind}
         /\ IF t.method # "GET" \/ StartsWith(Chars(t.url), Chars(ExtensionScheme))
            THEN t.kind = "pass" /\ t.pc = "done" /\ ~t.delivered
                 /\ t.fetches = 0 /\ t.puts = 0
            ELSE /\ t.pc # "done"
                 /\ t.kind =
                      IF ContainsOneOf(t.url, NETWORK_FIRST_ROUTES) THEN "nf"
                      ELSE IF ContainsOneOf(t.url, CACHE_FIRST_ROUTES) THEN "cf"
                      ELSE IF \E k \in 1..Len(STATIC_ASSETS) :
                                EndsWith(Chars(t.url), Chars(STATIC_ASSETS[k])) THEN "co"
                      ELSE "swr"]_vars

\* A request that all three pattern lists apply to is with network-first,
\* next to a request that was left alone.
C11_Witness ==
  \E i, j \in Slots :
    /\ tasks[i].url = URL_API_ASSETS /\ tasks[i].kind = "nf" /\ tasks[i].pc = "fetch"
    /\ tasks[j].kind = "pass" /\ tasks[j].url = URL_EXTENSION /\ tasks[j].method = "GET"

\* The handler's fetch was issued and has rejected.
FetchRejected(t) ==
  /\ t.fetches >= 1 /\ t.fetched = Pending
  /\ t.pc \in {"match", "offline", "done"}
  /\ t.kind = "swr" => t.pc = "done"

\* The promise given to respondWith is fulfilled: it carries a value, be it
\* a response, undefined or null.
SettledWithValue(t) ==
  t.delivered /\ t.result.t \in {"response", "undefined", "null"}

\* C12: in networkFirstStrategy, cacheFirstStrategy and
\* staleWhileRevalidateStrategy a rejected fetch never makes the handler's
\* promise reject.  Once the fetch has rejected, the handler either has
\* settled with a value or has a step to take and settles with a value.
C12_FetchRejectionNeverPropagates ==
  \A i \in Slots :
    (tasks[i].kind \in {"nf", "cf", "swr"} /\ FetchRejected(tasks[i])) =>
      /\ tasks[i].result # Rejected
      /\ tasks[i].pc = "done" => SettledWithValue(tasks[i])
      /\ tasks[i].pc # "done" =>
           /\ tasks[i].kind = "nf" /\ ~tasks[i].delivered
           /\ ENABLED (NfMatch(i) \/ NfOfflineMatch(i))

\* cacheFirstStrategy has answered a rejected fetch on a miss with its 404.
C12_Witness ==
  \E i \in Slots :
    /\ tasks[i].kind = "cf" /\ tasks[i].pc = "done" /\ FetchRejected(tasks[i])
    /\ tasks[i].cached = Undefined /\ tasks[i].result = NotFound404

\* The runtime partition's entry for url.
RuntimeEntry(cs, url) == CacheMatch(EntriesOf(cs, RUNTIME_CACHE_NAME), url)

\* C13, in every state of a cacheUrls run: a URL is put exactly when its
\* own fetch resolved ok, whatever became of the other URLs of the list;
\* nothing is posted to the sender; a run that ends without another handler
\* having changed the partitions leaves every ok response in the runtime
\* partition under its URL.
C13_EachUrlOnItsOwn ==
  \A i \in Slots :
    tasks[i].kind = "cacheUrls" =>
      LET t == tasks[i] IN
      /\ t.replies = 0 /\ ~t.delivered
      /\ \A k \in 1..Len(t.sub) :
           /\ t.sub[k] \in {"put", "stored"} <=> Ok(t.batch[k])
           /\ t.sub[k] = "skipped" <=> (t.batch[k].t = "response" /\ ~Ok(t.batch[k]))
           /\ t.sub[k] \in {"fetch", "failed"} <=> t.batch[k] = Pending
      /\ (t.pc = "done" /\ ~t.failed /\ t.requests # <<>>) =>
           /\ t.puts = Cardinality({k \in 1..Len(t.sub) : Ok(t.batch[k])})
           /\ \A k \in 1..Len(t.sub) : t.sub[k] \in {"stored", "skipped", "failed"}
           /\ ~t.disturbed =>
                \A k \in 1..Len(t.sub) :
                  Ok(t.batch[k]) => RuntimeEntry(caches, t.requests[k]) = t.batch[k]

\* C13: CACHE_URLS stores every URL whose fetch resolved with an ok
\* response in the runtime partition, whether or not the fetches of other
\* URLs of the list reject or answer non-ok; for a URL that fails nothing
\* is written, so it is absent unless it was stored before; no reply is
\* posted.
C13_CacheUrls ==
  /\ []C13_EachUrlOnItsOwn
  /\ [][\A i \in Slots : \A k \in 1..Len(tasks[i].sub) :
          (tasks[i].kind = "cacheUrls" /\ tasks[i].pc = "all" /\ tasks'[i].kind = "cacheUrls") =>
            /\ (tasks[i].sub[k] = "put" /\ tasks'[i].sub[k] = "stored") =>
                 /\ RuntimeEntry(caches', tasks[i].requests[k]) = tasks[i].batch[k]
                 /\ \A u \in KnownURLs \ {tasks[i].requests[k]} :
                      Stored(caches', u) = Stored(caches, u)
            /\ (tasks[i].sub[k] = "fetch" /\ tasks'[i].sub[k] \in {"skipped", "failed"}) =>
                 caches' = caches
            /\ tasks[i].sub[k] \in {"skipped", "failed", "stored"} =>
                 tasks'[i].sub[k] = tasks[i].sub[k]]_vars

\* A run over two URLs is through: the fetch of the first rejected and it
\* is absent, the second is stored.
C13_Witness ==
  \E i \in Slots :
    /\ tasks[i].kind = "cacheUrls" /\ tasks[i].pc = "done" /\ ~tasks[i].disturbed
    /\ tasks[i].requests = <<URL_PAGE, URL_API>>
    /\ tasks[i].sub = <<"failed", "stored">>
    /\ RuntimeEntry(caches, URL_API) = tasks[i].batch[2]
    /\ Stored(caches, URL_PAGE) = {}

\* C14, in every state after the lookup of a staleWhileRevalidateStrategy
\* that found an entry: the entry has been returned and stays the result,
\* and one background fetch has been issued -- while that fetch is
\* outstanding, after it rejected or answered non-ok, and while its cache
\* write is outstanding.
C14_ServedFromCache ==
  \A i \in Slots :
    (tasks[i].kind = "swr" /\ tasks[i].pc # "match" /\ Truthy(tasks[i].cached)) =>
      /\ tasks[i].delivered
      /\ tasks[i].result = tasks[i].cached
      /\ tasks[i].fetches = 1

\* C14: on a cache hit staleWhileRevalidateStrategy returns the cached
\* response in the step of the lookup, with the background fetch started
\* and not settled; whatever that fetch or its cache write does later,
\* and however long it takes, leaves the returned response as it is.
C14_StaleWhileRevalidateHit ==
  /\ []C14_ServedFromCache
  /\ [][\A i \in Slots :
          (Leaves(i, "swr", "match") /\ Truthy(CachesMatch(caches, tasks[i].url))) =>
            /\ tasks'[i].pc = "fetch" /\ tasks'[i].fetched = Pending
            /\ tasks'[i].delivered
            /\ tasks'[i].result = CachesMatch(caches, tasks[i].url)
            /\ caches' = caches]_vars

\* The cached response was returned and the background fetch rejected
\* afterwards.
C14_Witness ==
  \E i \in Slots :
    /\ tasks[i].kind = "swr" /\ tasks[i].pc = "done"
    /\ Truthy(tasks[i].cached) /\ tasks[i].fetched = Pending
    /\ tasks[i].result = tasks[i].cached

\* C15: every GET_CACHE_STATUS message is answered exactly once on its
\* port: nothing is posted while getCacheStatus runs, it always has a step
\* to take, and when it is through one message has been posted -- the
\* status object, or { error } when caches.keys, caches.open or cache.keys
\* rejected; the handler's promise never rejects.
C15_ExactlyOneReply ==
  \A i \in Slots :
    tasks[i].kind = "status" =>
      /\ tasks[i].pc # "done" =>
           /\ tasks[i].replies = 0 /\ ~tasks[i].delivered
           /\ ENABLED StatusStep(i)
      /\ tasks[i].pc = "done" =>
           /\ tasks[i].replies = 1 /\ tasks[i].delivered
           /\ tasks[i].result \in {StatusValue, ErrorValue}
           /\ tasks[i].result = ErrorValue => tasks[i].failed
           /\ ~tasks[i].failed => tasks[i].result = StatusValue

\* Opening a listed partition failed and { error } was posted.
C15_Witness ==
  \E i \in Slots :
    /\ tasks[i].kind = "status" /\ tasks[i].pc = "done"
    /\ tasks[i].names # <<>> /\ tasks[i].handle = NoHandle /\ tasks[i].idx = 1
    /\ tasks[i].result = ErrorValue /\ tasks[i].replies = 1

\* C16, in every state of a cacheFirstStrategy whose lookup missed: one
\* fetch was made; a rejected fetch gave the 404 response and a non-ok
\* answer was returned as it is, in both cases with no write; an ok answer
\* is returned with one write of it issued.
C16_OneFetchOnMiss ==
  \A i \in Slots :
    (tasks[i].kind = "cf" /\ tasks[i].cached = Undefined) =>
      LET t == tasks[i] IN
      /\ t.fetches = 1
      /\ t.pc \in {"fetch", "open", "put", "done"}
      /\ t.pc = "fetch" => t.fetched = Pending /\ ~t.delivered
      /\ (t.pc = "done" /\ t.fetched = Pending) =>
           t.delivered /\ t.result = NotFound404 /\ t.result.status = 404 /\ t.puts = 0
      /\ (t.fetched.t = "response" /\ ~Ok(t.fetched)) =>
           t.pc = "done" /\ t.delivered /\ t.result = t.fetched /\ t.puts = 0
      /\ Ok(t.fetched) =>
           /\ t.pc \in {"open", "put", "done"}
           /\ t.pc = "open" => t.puts = 0 /\ ~t.delivered
           /\ t.pc \in {"put", "done"} => t.puts = 1 /\ t.delivered /\ t.result = t.fetched

\* C16: cacheFirstStrategy on a miss makes exactly one fetch; an ok
\* response is returned and its copy is stored under the request in the
\* runtime partition (by the write the handler issued, on a partition
\* that still exists when the write lands); a non-ok response is returned
\* and nothing is stored; a rejected fetch gives a 404 response.
C16_CacheFirstMiss ==
  /\ []C16_OneFetchOnMiss
  /\ [][\A i \in Slots :
          /\ (Leaves(i, "cf", "put") /\ tasks[i].handle = RUNTIME_CACHE_NAME) =>
               /\ tasks'[i].pc = "done"
               /\ RuntimeEntry(caches', tasks[i].url) = tasks[i].fetched
               /\ Cardinality(Stored(<<[name |-> RUNTIME_CACHE_NAME,
                                        entries |-> EntriesOf(caches', RUNTIME_CACHE_NAME)]>>,
                                      tasks[i].url)) = 1
          /\ Leaves(i, "cf", "fetch") => caches' = caches
          /\ Leaves(i, "cf", "open") =>
               /\ HasCache(caches', RUNTIME_CACHE_NAME)
               /\ \A u \in KnownURLs : Stored(caches', u) = Stored(caches, u)]_vars

\* A miss was answered by the network with an ok response, which was
\* returned and is now stored in the runtime partition.
C16_Witness ==
  \E i \in Slots :
    /\ tasks[i].kind = "cf" /\ tasks[i].pc = "done" /\ tasks[i].cached = Undefined
    /\ Ok(tasks[i].fetched) /\ tasks[i].result = tasks[i].fetched
    /\ tasks[i].handle = RUNTIME_CACHE_NAME
    /\ RuntimeEntry(caches, tasks[i].url) = tasks[i].fetched

\* C17: when the fetch of networkFirstStrategy has rejected, an entry that
\* any partition holds for the request is returned (the one of the
\* earliest partition holding one); when no partition holds one and the
\* request is not a navigation, a response with status 503 is returned.
\* The fallback writes nothing.
C17_NetworkFirstFallback ==
  [][\A i \in Slots :
       Leaves(i, "nf", "match") =>
         /\ tasks[i].fetched = Pending /\ tasks[i].fetches = 1
         /\ caches' = caches
         /\ Stored(caches, tasks[i].url) # {} =>
              /\ tasks'[i].pc = "done" /\ tasks'[i].delivered
              /\ FirstStored(caches, tasks[i].url, tasks'[i].result)
         /\ (Stored(caches, tasks[i].url) = {} /\ tasks[i].mode # "navigate") =>
              /\ tasks'[i].pc = "done" /\ tasks'[i].delivered
              /\ tasks'[i].result.t = "response" /\ tasks'[i].result.status = 503]_vars

\* The fetch rejected and the entry of another application's partition was
\* returned, the runtime and static partitions holding none.
C17_Witness ==
  \E i \in Slots :
    /\ tasks[i].kind = "nf" /\ tasks[i].pc = "done" /\ tasks[i].fetched = Pending
    /\ Truthy(tasks[i].result)
    /\ CacheMatch(EntriesOf(caches, FOREIGN_CACHE_NAME), tasks[i].url) = tasks[i].result
    /\ ~Truthy(CacheMatch(EntriesOf(caches, RUNTIME_CACHE_NAME), tasks[i].url))

\* C18: the promise the install and the activate handler give to
\* waitUntil never rejects.  Whatever fails -- caches.open, cache.addAll,
\* caches.keys, a caches.delete, skipWaiting(), clients.claim() -- the
\* .catch at the end of the chain fulfils the promise; while nothing has
\* failed the handler has a step to take, and when it is through the
\* promise is fulfilled.
C18_LifecycleNeverRejects ==
  \A i \in Slots :
    tasks[i].kind \in {"install", "activate"} =>
      /\ tasks[i].result # Rejected
      /\ (tasks[i].failed \/ tasks[i].pc = "done") =>
           tasks[i].delivered /\ tasks[i].result = Undefined
      /\ (~tasks[i].failed /\ tasks[i].pc # "done") =>
           /\ ~tasks[i].delivered
           /\ ENABLED (InstallStep(i) \/ ActivateStep(i))

\* skipWaiting() rejected after the assets were stored, and the install
\* handler's promise is fulfilled.
C18_Witness ==
  \E i \in Slots :
    /\ tasks[i].kind = "install" /\ tasks[i].pc = "done" /\ tasks[i].failed
    /\ "skipWaiting" \in tasks[i].calls /\ tasks[i].batch \in Batches
    /\ tasks[i].delivered /\ tasks[i].result = Undefined

\* No partition holds two entries for one request.
OneEntryPerKey(cs) ==
  \A k \in 1..Len(cs) : \A m, n \in 1..Len(cs[k].entries) :
    cs[k].entries[m].url = cs[k].entries[n].url => m = n

\* Two handlers have stored or are about to store different responses
\* under the same request in the runtime partition.
RacingPuts(i, j) ==
  /\ i # j
  /\ tasks[i].kind \in {"nf", "swr"} /\ tasks[j].kind \in {"nf", "swr"}
  /\ tasks[i].url = tasks[j].url
  /\ tasks[i].pc = "put" /\ tasks[j].pc = "put"
  /\ tasks[i].handle = RUNTIME_CACHE_NAME /\ tasks[j].handle = RUNTIME_CACHE_NAME
  /\ tasks[i].fetched # tasks[j].fetched

\* C19: when networkFirstStrategy and staleWhileRevalidateStrategy handlers
\* store responses under the same request concurrently, every put that
\* lands leaves the runtime partition with exactly one entry for the
\* request, the whole response of the handler whose put landed: so the
\* partition ends with the response of whichever put lands last.
C19_LastPutWins ==
  /\ []OneEntryPerKey(caches)
  /\ [][\A i, j \in Slots :
          (RacingPuts(i, j) /\ tasks'[i].pc = "done") =>
            /\ RuntimeEntry(caches', tasks[i].url) = tasks[i].fetched
            /\ tasks'[j].pc = "put" /\ tasks'[j].handle = RUNTIME_CACHE_NAME
            /\ RuntimeEntry(PutThrough(caches', RUNTIME_CACHE_NAME, tasks[j].url, tasks[j].fetched),
                            tasks[j].url) = tasks[j].fetched
            /\ OneEntryPerKey(PutThrough(caches', RUNTIME_CACHE_NAME, tasks[j].url, tasks[j].fetched))]_vars

\* The put of one handler has landed and the put of another, of a different
\* response under the same request, is still to land: the entry is the
\* first handler's response now and will be the second's.
C19_Witness ==
  \E i, j \in Slots :
    /\ i # j /\ tasks[i].url = tasks[j].url
    /\ tasks[i].kind = "nf" /\ tasks[i].pc = "done" /\ Ok(tasks[i].fetched)
    /\ tasks[j].kind = "nf" /\ tasks[j].pc = "put" /\ tasks[j].handle = RUNTIME_CACHE_NAME
    /\ tasks[i].fetched # tasks[j].fetched
    /\ RuntimeEntry(caches, tasks[i].url) = tasks[i].fetched

\* C20: a partition comes into existence only as the claim says: the
\* static partition by the caches.open of an install step, the runtime
\* partition by a handler for which a network fetch has resolved ok; no
\* other step creates a partition -- not a CACHE_URLS with an empty or
\* all-failing list, not GET_CACHE_STATUS.
C20_PartitionsCreatedOnSuccess ==
  [][\A n \in { STATIC_CACHE_NAME, RUNTIME_CACHE_NAME, CACHE_NAME,
                 OLD_STATIC_CACHE_NAME, FOREIGN_CACHE_NAME } :
       (~HasCache(caches, n) /\ HasCache(caches', n)) =>
         \/ /\ n = STATIC_CACHE_NAME
            /\ \E i \in Slots : Leaves(i, "install", "open")
         \/ /\ n = RUNTIME_CACHE_NAME
            /\ \E i \in Slots :
                 /\ tasks[i].handle # RUNTIME_CACHE_NAME /\ tasks'[i].handle = RUNTIME_CACHE_NAME
                 /\ \/ Ok(tasks[i].fetched)
                    \/ \E k \in 1..Len(tasks[i].batch) : Ok(tasks[i].batch[k])]_vars

\* C21: no entry of the runtime partition holds a non-ok response, and no
\* write of one is on its way: networkFirstStrategy, cacheFirstStrategy,
\* staleWhileRevalidateStrategy and cacheUrls issue a put only for a
\* response whose ok flag is true.
C21_OnlyOkResponsesStored ==
  /\ \A m \in 1..Len(EntriesOf(caches, RUNTIME_CACHE_NAME)) :
       Ok(EntriesOf(caches, RUNTIME_CACHE_NAME)[m].resp)
  /\ \A i \in Slots :
       /\ (tasks[i].kind \in {"nf", "cf", "swr"} /\ tasks[i].pc \in {"open", "put"}) =>
            Ok(tasks[i].fetched)
       /\ (tasks[i].kind \in {"nf", "cf", "swr"} /\ tasks[i].fetched.t = "response"
            /\ ~Ok(tasks[i].fetched)) => tasks[i].puts = 0 /\ tasks[i].pc = "done"
       /\ tasks[i].kind = "cacheUrls" =>
            \A k \in 1..Len(tasks[i].sub) :
              tasks[i].sub[k] \in {"put", "stored"} => Ok(tasks[i].batch[k])

\* The strategies have written to the runtime partition and a handler has
\* just passed a non-ok response on without storing it.
C21_Witness ==
  \E i \in Slots :
    /\ tasks[i].kind \in {"nf", "cf", "swr"} /\ tasks[i].pc = "done"
    /\ tasks[i].fetched.t = "response" /\ ~Ok(tasks[i].fetched)
    /\ Truthy(RuntimeEntry(caches, URL_API)) /\ Truthy(RuntimeEntry(caches, URL_STATIC))

\* C22: no step of getCacheStatus, from dispatch to reply, creates, deletes
\* or modifies a partition or an entry -- also when a CLEAR_CACHE deletes a
\* partition between its caches.keys() and its caches.open of the name.
C22_StatusIsReadOnly ==
  [][\A i \in Slots :
       ( /\ tasks[i].kind = "status" /\ tasks[i].pc # "done"
         /\ <<tasks'[i].pc, tasks'[i].idx, tasks'[i].entry>> #
              <<tasks[i].pc, tasks[i].idx, tasks[i].entry>> )
       => caches' = caches]_vars

\* C23, in every state of a networkFirstStrategy handler: the cache has
\* been consulted only if the fetch rejected; a handler whose fetch
\* resolved non-ok is through, has returned that response as it is, has
\* looked nothing up and has written nothing.
C23_NonOkIsFinal ==
  \A i \in Slots :
    tasks[i].kind = "nf" =>
      /\ (tasks[i].cached # Pending \/ tasks[i].pc \in {"match", "offline"}) =>
           tasks[i].fetched = Pending
      /\ (tasks[i].fetched.t = "response" /\ ~Ok(tasks[i].fetched)) =>
           /\ tasks[i].pc = "done" /\ tasks[i].delivered
           /\ tasks[i].result = tasks[i].fetched
           /\ tasks[i].cached = Pending
           /\ tasks[i].puts = 0 /\ tasks[i].handle = NoHandle

\* C23: when the fetch of networkFirstStrategy resolves with a non-ok
\* response, the response is returned as it is in that step, no partition
\* changes and the cache is not consulted, whether or not a partition holds
\* an entry for the request; the cache fallback is taken only when the
\* fetch rejects.
C23_NetworkFirstNonOk ==
  /\ []C23_NonOkIsFinal
  /\ [][\A i \in Slots :
          (Leaves(i, "nf", "fetch") /\ tasks'[i].fetched.t = "response"
           /\ ~Ok(tasks'[i].fetched)) =>
            /\ caches' = caches
            /\ tasks'[i].pc = "done"
            /\ tasks'[i].result = tasks'[i].fetched
            /\ tasks'[i].result # CachesMatch(caches, tasks[i].url)]_vars

\* The network answered 500 for a request some partition holds an entry
\* for, and the 500 was returned.
C23_Witness ==
  \E i \in Slots :
    /\ tasks[i].kind = "nf" /\ tasks[i].pc = "done"
    /\ tasks[i].fetched.t = "response" /\ tasks[i].fetched.status = 500
    /\ tasks[i].result = tasks[i].fetched
    /\ Stored(caches, tasks[i].url) # {}

\* The URLs the fetch listener hands to cacheOnlyStrategy.
CacheOnlyURLs == { u \in RequestURLs : RouteTable["GET", u] = "co" }

\* No partition holds an entry a cache-only request would be answered from.
NoCacheOnlyEntry == \A u \in CacheOnlyURLs : Stored(caches, u) = {}

\* An install or a CACHE_URLS handler is under way.
WriterInFlight ==
  \E j \in Slots : tasks[j].kind \in {"install", "cacheUrls"} /\ tasks[j].pc # "done"

\* C24 as stated: when a CLEAR_CACHE has completed and no install and no
\* CACHE_URLS is under way, no partition holds an entry for a cache-only
\* URL, so that cache-only requests find no response until one of them runs
\* again.
C24_NoEntryOnceCleared ==
  \A i \in Slots :
    (tasks[i].kind = "clear" /\ tasks[i].pc = "done" /\ ~WriterInFlight) => NoCacheOnlyEntry

\* C24, amended: when a CLEAR_CACHE completes during which no install and no
\* CACHE_URLS step ran, no partition holds an entry for a cache-only URL;
\* only a step of an install or of a CACHE_URLS handler brings such an entry
\* in, never a step of a fetch strategy; and as long as there is none, every
\* cache-only request resolves to 'no response'.
C24_ClearedUntilInstalled ==
  /\ [](\A i \in Slots :
          (tasks[i].kind = "clear" /\ tasks[i].pc = "done" /\ ~tasks[i].overlap)
            => NoCacheOnlyEntry)
  /\ [][(NoCacheOnlyEntry /\ ~NoCacheOnlyEntry') =>
          \E i \in Slots :
            /\ tasks[i].kind \in {"install", "cacheUrls"} /\ tasks[i].pc # "done"
            /\ <<tasks'[i].pc, tasks'[i].sub>> # <<tasks[i].pc, tasks[i].sub>>]_vars
  /\ [][\A i \in Slots :
          (Leaves(i, "co", "match") /\ NoCacheOnlyEntry) =>
            /\ tasks'[i].pc = "done" /\ tasks'[i].delivered
            /\ tasks'[i].result = Undefined]_vars

\* A CLEAR_CACHE that listed the partition holding /index.html has completed
\* with no install step in between, while cache-first stored the response
\* for /static/index.html in the runtime partition it created anew.
C24_Witness ==
  \E i \in Slots :
    /\ tasks[i].kind = "clear" /\ tasks[i].pc = "done" /\ ~tasks[i].overlap
    /\ \E k \in 1..Len(tasks[i].names) : tasks[i].names[k] = OLD_STATIC_CACHE_NAME
    /\ URL_INDEX \in CacheOnlyURLs
    /\ Stored(caches, URL_STATIC_INDEX) # {}
    /\ NoCacheOnlyEntry

====
